---- MODULE Spec2Model ----
(***************************************************************************)
(* A model of the FileServer of compilelife/fileshare (src/main.go): the   *)
(* admission gate (activeClient), the transfer status record, the transfer *)
(* log and the download / upload / cancel handlers.  Each handler runs on  *)
(* a worker of its own and takes one step per critical section on the gate *)
(* (activeMu), the status record (statusMu) or the file system; the log    *)
(* append of an addLog call is taken in the step of the section it         *)
(* follows.  The broadcastStatus calls that follow the sections are steps  *)
(* of their own (the copy of the status record, then the sends) in the     *)
(* runs that have observers on /api/events; without observers they send to *)
(* nobody and are left out.  The locking itself is followed in the runs    *)
(* of SpecLocks and SpecTest, where every goroutine takes one mutex        *)
(* operation or one access to shared state per step.                       *)
(***************************************************************************)
EXTENDS Integers, Sequences, FiniteSets, TLC

\* ------------------------------------------------------------ constants
\* buf := make([]byte, 64*1024)
ChunkSize == 65536
\* if len(fs.transferLog) > 100
LogCap == 100

\* ------------------------------------------------------------ bounds
\* number of requests that arrive in one behaviour, each on its own worker
MaxRequests == 2
\* number of direct addLog calls in the log specification
MaxLogCalls == 104

Peers == {"A", "B"}
Names == {"f1", "f2"}
Handlers == 1..MaxRequests
\* file sizes: an empty file, and one of two chunks, the second one short
Sizes == {0, ChunkSize + ChunkSize \div 2}

VARIABLES
    mode,          \* fs.mode, fixed at session start
    target,        \* what fs.path names in send mode: a file or a directory
    disk,          \* the destination directory of recv mode: name -> file
    status,        \* fs.status (guarded by statusMu)
    activeClient,  \* fs.activeClient (guarded by activeMu)
    transferLog,   \* fs.transferLog (guarded by logMu)
    logCount,      \* number of addLog calls so far (stamps the entries)
    req,           \* one record per request: its inputs, position and locals
    proc,          \* the process: fs.autoExit, and where Start's last lines are
    sseClients,    \* fs.sseClients (guarded by sseMu): the registered observers
    obs,           \* one record per /api/events request of the run
    bcast,         \* per handler: its broadcastStatus calls in progress
    locks,         \* statusMu, logMu, sseMu, activeMu: who holds each
    work           \* the workers followed lock operation by lock operation

vars == <<mode, target, disk, status, activeClient, transferLog, logCount, req, proc, sseClients, obs, bcast, locks, work>>

\* ------------------------------------------------------------ helpers
RECURSIVE Gcd(_, _)
Gcd(a, b) == IF b = 0 THEN a ELSE Gcd(b, a % b)

\* a non-negative rational in lowest terms; stands for the float64 Progress
Ratio(n, d) == LET g == Gcd(n, d) IN [num |-> n \div g, den |-> d \div g]

\* float64(transferred) / float64(fs.status.Size) * 100
ProgressOf(transferred, size) == Ratio(transferred * 100, size)

Min(a, b) == IF a < b THEN a ELSE b

RECURSIVE SumSeq(_)
SumSeq(s) == IF s = <<>> THEN 0 ELSE Head(s) + SumSeq(Tail(s))

\* info.Size() for a file, calculateDirSize for a directory
TargetSize == SumSeq(target.files)

\* the directories that can be served: an empty one, and one of two files
DirTargets == {[isDir |-> TRUE, files |-> <<>>], [isDir |-> TRUE, files |-> <<ChunkSize \div 2, ChunkSize>>]}
FileTargets == {[isDir |-> FALSE, files |-> <<s>>] : s \in Sizes}
NoTarget == [isDir |-> TRUE, files |-> <<>>]

\* a file of the destination directory: who wrote it, and how many bytes
Absent == [exists |-> FALSE, by |-> "", len |-> 0]
Existing == [exists |-> TRUE, by |-> "", len |-> ChunkSize \div 2]

\* ------------------------------------------------------------ requests
\* pc is the handler's position, transferred and idx are its locals, fault
\* names an I/O error it met and resp is the status code of its answer
IdleReq == [kind |-> "none", peer |-> "", method |-> "", range |-> FALSE, hasFile |-> FALSE, name |-> "", size |-> 0, pc |-> "idle", transferred |-> 0, idx |-> 0, fault |-> "", resp |-> 0]

NewReq(kind, peer, method, range, hasFile, name, size) == [kind |-> kind, peer |-> peer, method |-> method, range |-> range, hasFile |-> hasFile, name |-> name, size |-> size, pc |-> "start", transferred |-> 0, idx |-> 0, fault |-> "", resp |-> 0]

\* the requests that can arrive.  A handler that answers before it calls
\* getClientIP (wrong mode, wrong method) reads nothing else of its request.
DownloadRequests ==
    IF mode = "send"
    THEN {NewReq("download", p, "GET", r, FALSE, "", 0) : p \in Peers, r \in BOOLEAN}
    ELSE {NewReq("download", "A", "GET", FALSE, FALSE, "", 0)}

UploadRequests ==
    IF mode = "recv"
    THEN {NewReq("upload", p, "POST", FALSE, TRUE, n, s) : p \in Peers, n \in Names, s \in Sizes}
         \cup {NewReq("upload", p, "POST", FALSE, FALSE, "", 0) : p \in Peers}
         \cup {NewReq("upload", "A", "GET", FALSE, FALSE, "", 0)}
    ELSE {NewReq("upload", "A", "POST", FALSE, FALSE, "", 0)}

CancelRequests ==
    {NewReq("cancel", p, "POST", FALSE, FALSE, "", 0) : p \in Peers}
    \cup {NewReq("cancel", "A", "GET", FALSE, FALSE, "", 0)}

\* ------------------------------------------------------------ broadcaster
\* the buffer of an observer's channel: make(chan string, 10)
ChanCap == 10

\* the /api/events requests of a run
MaxObservers == 2
Observers == 1..MaxObservers

\* handleEvents in its loop, with clientChan := make(chan string, 10)
\* registered; a stalled observer is one whose peer has stopped reading, so
\* that its handler stays in Flush and takes nothing from its channel
OpenObs(stalled) == [pc |-> "open", clientChan |-> <<>>, stalled |-> stalled]

\* a handler that is not inside broadcastStatus
NoSnapshot == [status |-> "", progress |-> Ratio(0, 1), transferred |-> 0, error |-> ""]
NoBroadcast == [todo |-> 0, pc |-> "idle", snap |-> NoSnapshot]

\* a run without observers: sseClients stays empty, so broadcastStatus reads
\* the status and the holder, sends to nobody and changes nothing
NoObservers ==
    /\ sseClients = {}
    /\ obs = <<>>
    /\ bcast = [h \in Handlers |-> NoBroadcast]

\* the four mutexes of the FileServer
Mutexes == {"statusMu", "logMu", "sseMu", "activeMu"}

\* a mutex nobody holds: no writer (0) and no readers
Unlocked == [w |-> 0, r |-> {}]

\* the handlers are taken one critical section per step: every section
\* finds its mutex free and leaves it free
SectionsWhole ==
    /\ locks = [m \in Mutexes |-> Unlocked]
    /\ work = <<>>

\* some /api/events request arrives in this run
Watched == DOMAIN obs # {}

\* handler h is not inside a broadcastStatus call
Ready(h) == bcast[h].todo = 0

\* handler h has run its critical sections and now makes the broadcastStatus
\* calls that follow them: one per status section, one per addLog
Publish(h, calls) ==
    bcast' = IF Watched
             THEN [bcast EXCEPT ![h].todo = calls + (logCount' - logCount)]
             ELSE bcast

\* status := *fs.status under statusMu.RLock: the fields the message carries
Snapshot(st) == [status |-> st.Status, progress |-> st.Progress, transferred |-> st.Transferred, error |-> st.Error]

\* fmt.Sprintf of the message, with the holder read under activeMu
Message(snap, holder) ==
    [status |-> snap.status, progress |-> snap.progress, transferred |-> snap.transferred,
     client_ip |-> holder, error |-> snap.error]

\* mutant: the send overwrites what the observer has not taken yet
SendLatestOnly(chan, data) == <<data>>

\* select { case client <- data: default: }
Send(chan, data) == IF Len(chan) < ChanCap THEN Append(chan, data) ELSE chan

\* ------------------------------------------------------------ initial state
\* NewFileServer
InitStatus == [Status |-> "waiting", Size |-> 0, Transferred |-> 0, Progress |-> Ratio(0, 1), Error |-> "", ClientIP |-> ""]

InitServer ==
    /\ mode \in {"send", "recv"}
    /\ IF mode = "send"
       THEN target \in FileTargets \cup DirTargets
       ELSE target = NoTarget
    /\ IF mode = "recv"
       THEN disk \in {[n \in Names |-> Absent], [n \in Names |-> IF n = "f1" THEN Existing ELSE Absent]}
       ELSE disk = [n \in Names |-> Absent]
    /\ status = InitStatus
    /\ activeClient = ""
    /\ transferLog = <<>>
    /\ logCount = 0
    /\ req = [h \in Handlers |-> IdleReq]

\* Start: with fs.autoExit it runs waitForComplete, without it blocks in
\* select {} while the handlers serve
Serving(autoExit) == [autoExit |-> autoExit, state |-> "serving", code |-> 0]

\* the server started without the auto-exit flag
Init == InitServer /\ proc = Serving(FALSE) /\ NoObservers /\ SectionsWhole

\* ------------------------------------------------------------ log
\* mutant: the cap keeps the oldest entries and drops the new one
AppendLogKeepsOldest(log, entry) ==
    LET l == Append(log, entry)
    IN IF Len(l) > LogCap THEN SubSeq(l, 1, LogCap) ELSE l

\* addLog's critical section: append, then keep the last LogCap entries
AppendLog(log, entry) ==
    LET l == Append(log, entry)
    IN IF Len(l) > LogCap THEN SubSeq(l, Len(l) - LogCap + 1, Len(l)) ELSE l

\* addLog(message); the entry's n stands for its timestamp
addLog(msg, peer) ==
    /\ transferLog' = AppendLog(transferLog, [n |-> logCount + 1, msg |-> msg, peer |-> peer])
    /\ logCount' = logCount + 1

\* ------------------------------------------------------------ admission gate
\* mutant: the holder is not compared with the caller
AcquireAlways(holder, clientIP) == TRUE

\* acquireClient: the value it returns
AcquireOk(holder, clientIP) == ~(holder # "" /\ holder # clientIP)

\* mutant: an empty slot is not taken
AcquireHolderKeeps(holder, clientIP) == holder

\* mutant: the caller takes the slot whoever holds it
AcquireHolderTakes(holder, clientIP) == clientIP

\* acquireClient: the holder it leaves
AcquireHolder(holder, clientIP) ==
    IF holder # "" /\ holder # clientIP THEN holder
    ELSE IF holder = "" THEN clientIP ELSE holder

\* mutant: the disconnection is logged whether or not the slot was cleared
ReleaseLogsAlways(holder, clientIP) == TRUE

\* releaseClient: shouldLog
ReleaseClears(holder, clientIP) == holder = clientIP

\* mutant: the release leaves the holder in place
ReleaseHolderKeeps(holder, clientIP) == holder

\* mutant: the slot is cleared whoever holds it
ReleaseHolderAny(holder, clientIP) == ""

\* releaseClient: the holder it leaves
ReleaseHolder(holder, clientIP) == IF holder = clientIP THEN "" ELSE holder

\* releaseClient(clientIP): the gate section, then addLog when it cleared
releaseClient(clientIP) ==
    /\ activeClient' = ReleaseHolder(activeClient, clientIP)
    /\ IF ReleaseClears(activeClient, clientIP)
       THEN addLog("disconnected", clientIP)
       ELSE UNCHANGED <<transferLog, logCount>>

\* ------------------------------------------------------------ status record
\* mutant: the chunk updates Progress and forgets Transferred
ProgressedStale(st, transferred) ==
    [st EXCEPT !.Progress = IF st.Size > 0 THEN ProgressOf(transferred, st.Size) ELSE st.Progress]

\* mutant: the loop stops reporting once the transfer has been cancelled
ProgressedUnlessCancelled(st, transferred) ==
    IF st.Status = "cancelled" THEN st
    ELSE [st EXCEPT !.Transferred = transferred,
                    !.Progress = IF st.Size > 0 THEN ProgressOf(transferred, st.Size) ELSE st.Progress]

\* fs.status.Transferred = transferred; Progress only when Size > 0
Progressed(st, transferred) ==
    [st EXCEPT !.Transferred = transferred,
               !.Progress = IF st.Size > 0 THEN ProgressOf(transferred, st.Size) ELSE st.Progress]

\* mutant: the start of a transfer clears what the previous attempt left
StartedResets(st, clientIP, size) ==
    [st EXCEPT !.Status = "transferring", !.ClientIP = clientIP, !.Size = size,
               !.Transferred = 0, !.Progress = Ratio(0, 1), !.Error = ""]

\* fs.status.Status = "transferring"; ClientIP; Size
Started(st, clientIP, size) == [st EXCEPT !.Status = "transferring", !.ClientIP = clientIP, !.Size = size]

\* mutant: the failure records its message and leaves the phase alone
FailedKeepsPhase(st, msg) == [st EXCEPT !.Error = msg]

\* fs.status.Status = "error"; fs.status.Error = err.Error()
Failed(st, msg) == [st EXCEPT !.Status = "error", !.Error = msg]

\* fs.status.Status = "completed"; fs.status.Progress = 100
Completed(st) == [st EXCEPT !.Status = "completed", !.Progress = Ratio(100, 1)]

\* mutant: cancel acts only on a running transfer
CancelledIfTransferring(st) == IF st.Status = "transferring" THEN [st EXCEPT !.Status = "cancelled"] ELSE st

\* mutant: cancel re-arms the session
CancelledRearms(st) == [st EXCEPT !.Status = "waiting"]

\* fs.status.Status = "cancelled"
Cancelled(st) == [st EXCEPT !.Status = "cancelled"]

\* ------------------------------------------------------------ checks
\* mutant: the handler does not look at the mode
ModeAny(kind) == TRUE

\* fs.mode != "send" (handleDownload), fs.mode != "recv" (handleUpload)
ModeOk(kind) == (kind = "download" /\ mode = "send") \/ (kind = "upload" /\ mode = "recv")

\* mutant: the destination is not looked up
StatNever(d, name) == FALSE

\* os.Stat(savePath) returns no error: the destination file exists
StatOk(d, name) == d[name].exists

\* ------------------------------------------------------------ workers
\* mutant: an error path returns without the deferred release
FailReturns(h, fault, code, pc) == req' = [req EXCEPT ![h].fault = fault, ![h].resp = code, ![h].pc = "done"]

Goto(h, pc) == req' = [req EXCEPT ![h].pc = pc]
Reply(h, code, pc) == req' = [req EXCEPT ![h].resp = code, ![h].pc = pc]
Fail(h, fault, code, pc) == req' = [req EXCEPT ![h].fault = fault, ![h].resp = code, ![h].pc = pc]

\* the handler returns: its locals are gone, its request and answer remain
Return(h, code) == req' = [req EXCEPT ![h].pc = "done", ![h].transferred = 0, ![h].idx = 0, ![h].resp = code]

\* a request arrives and its handler starts on a worker of its own; the
\* peers are interchangeable, so the first request is from peer A
Arrival(h, requests) ==
    /\ req[h].pc = "idle" /\ proc.state # "exited"
    /\ \A g \in Handlers : g < h => req[g].pc # "idle"
    /\ \E r \in requests :
          /\ h = 1 => r.peer = "A"
          /\ req' = [req EXCEPT ![h] = r]
    /\ UNCHANGED <<locks, work, sseClients, obs, bcast, proc, mode, target, disk, status, activeClient, transferLog, logCount>>

Arrive(h) == Arrival(h, DownloadRequests \cup UploadRequests \cup CancelRequests)

\* the deferred releaseClient(clientIP) of a download or upload handler
Release(h) ==
    /\ Ready(h)
    /\ req[h].pc = "release"
    /\ releaseClient(req[h].peer)
    /\ Return(h, req[h].resp)
    /\ UNCHANGED <<locks, work, sseClients, obs, proc, mode, target, disk, status>>
    /\ Publish(h, 0)

\* the status section after the transfer (download and upload alike), then
\* addLog("Download completed for %s") / addLog("Upload completed from %s")
\* and the response
Complete(h) ==
    /\ Ready(h)
    /\ req[h].pc = "complete"
    /\ status' = Completed(status)
    /\ addLog(IF req[h].kind = "download" THEN "download completed" ELSE "upload completed", req[h].peer)
    /\ Reply(h, IF req[h].resp = 0 THEN 200 ELSE req[h].resp, "release")
    /\ UNCHANGED <<locks, work, sseClients, obs, proc, mode, target, disk, activeClient>>
    /\ Publish(h, 1)

\* ------------------------------------------------------------ handleDownload
\* mode check, getClientIP, acquireClient, addLog("Client %s connected")
DownloadAdmit(h) ==
    /\ Ready(h)
    /\ req[h].pc = "start" /\ req[h].kind = "download"
    /\ IF ~ModeOk("download")
       THEN Return(h, 400) /\ UNCHANGED <<activeClient, transferLog, logCount>>
       ELSE /\ activeClient' = AcquireHolder(activeClient, req[h].peer)
            /\ IF ~AcquireOk(activeClient, req[h].peer)
               THEN Return(h, 503) /\ UNCHANGED <<transferLog, logCount>>
               ELSE Goto(h, "begin") /\ addLog("connected", req[h].peer)
    /\ UNCHANGED <<locks, work, sseClients, obs, proc, mode, target, disk, status>>
    /\ Publish(h, 0)

\* os.Stat(fs.path), the status section that starts the transfer,
\* addLog("Started download from %s"), then the branch on directory / Range
\* and, for a plain file, os.Open
DownloadBegin(h) ==
    /\ Ready(h)
    /\ req[h].pc = "begin" /\ req[h].kind = "download"
    /\ \/ Fail(h, "stat", 404, "release") /\ UNCHANGED <<status, transferLog, logCount>>
       \/ /\ status' = Started(status, req[h].peer, TargetSize)
          /\ addLog("started download", req[h].peer)
          /\ IF target.isDir THEN Goto(h, "walk")
             ELSE IF req[h].range THEN Goto(h, "serveRange")
             ELSE \E opened \in BOOLEAN : IF opened THEN Goto(h, "chunk") ELSE Fail(h, "open", 500, "release")
    /\ UNCHANGED <<locks, work, sseClients, obs, proc, mode, target, disk, activeClient>>
    /\ Publish(h, IF req'[h].fault = "stat" THEN 0 ELSE 1)

\* one call of the filepath.Walk callback on a regular file: CreateHeader
\* (its error is dropped), os.Open, io.Copy (its error is dropped), then the
\* status section.  Once a write to the peer has failed the archive writer
\* may hand the next file a nil writer, on which io.Copy panics: the handler
\* then unwinds to its deferred release with the status record untouched
DownloadWalk(h) ==
    /\ Ready(h)
    /\ req[h].pc = "walk"
    /\ \/ /\ req[h].idx < Len(target.files)
          /\ \E n \in {0, target.files[req[h].idx + 1]} :
                /\ req' = [req EXCEPT ![h].idx = @ + 1, ![h].transferred = @ + n,
                                      ![h].fault = IF n < target.files[req[h].idx + 1] THEN "copy" ELSE @]
                /\ status' = Progressed(status, req[h].transferred + n)
       \/ /\ req[h].idx < Len(target.files)
          /\ Fail(h, "open", req[h].resp, "complete")
          /\ UNCHANGED status
       \/ /\ req[h].idx < Len(target.files) /\ req[h].fault = "copy"
          /\ Fail(h, "panic", req[h].resp, "release")
          /\ UNCHANGED status
       \/ /\ req[h].idx = Len(target.files)
          /\ Goto(h, "complete")
          /\ UNCHANGED status
    /\ UNCHANGED <<locks, work, sseClients, obs, proc, mode, target, disk, activeClient, transferLog, logCount>>
    /\ Publish(h, IF req'[h].idx > req[h].idx THEN 1 ELSE 0)

\* http.ServeContent(w, r, ..., mustOpen(fs.path)); mustOpen may panic
DownloadRange(h) ==
    /\ Ready(h)
    /\ req[h].pc = "serveRange"
    /\ \/ Reply(h, 206, "complete")
       \/ Fail(h, "open", req[h].resp, "release")
    /\ UNCHANGED <<locks, work, sseClients, obs, proc, mode, target, disk, status, activeClient, transferLog, logCount>>
    /\ Publish(h, 0)

\* one turn of the read / write loop of a plain file
DownloadChunk(h) ==
    /\ Ready(h)
    /\ req[h].pc = "chunk" /\ req[h].kind = "download"
    /\ LET remaining == TargetSize - req[h].transferred
           n == Min(ChunkSize, remaining)
       IN \/ /\ remaining > 0
             /\ req' = [req EXCEPT ![h].transferred = @ + n, ![h].resp = 200]
             /\ status' = Progressed(status, req[h].transferred + n)
          \/ /\ remaining > 0
             /\ Fail(h, "write", 200, "release")
             /\ status' = Failed(status, "write")
          \/ /\ remaining = 0
             /\ Goto(h, "complete")
             /\ UNCHANGED status
          \/ /\ Fail(h, "read", req[h].resp, "release")
             /\ status' = Failed(status, "read")
    /\ UNCHANGED <<locks, work, sseClients, obs, proc, mode, target, disk, activeClient, transferLog, logCount>>
    /\ Publish(h, IF req'[h].pc = "complete" THEN 0 ELSE 1)

\* ------------------------------------------------------------ handleUpload
\* mode check, method check, getClientIP, acquireClient
UploadAdmit(h) ==
    /\ Ready(h)
    /\ req[h].pc = "start" /\ req[h].kind = "upload"
    /\ IF ~ModeOk("upload")
       THEN Return(h, 400) /\ UNCHANGED activeClient
       ELSE IF req[h].method # "POST"
       THEN Return(h, 405) /\ UNCHANGED activeClient
       ELSE /\ activeClient' = AcquireHolder(activeClient, req[h].peer)
            /\ IF ~AcquireOk(activeClient, req[h].peer)
               THEN Return(h, 503)
               ELSE Goto(h, "parse")
    /\ UNCHANGED <<locks, work, sseClients, obs, proc, mode, target, disk, status, transferLog, logCount>>
    /\ Publish(h, 0)

\* ParseMultipartForm, FormFile, os.Stat(savePath), then the status section
\* that starts the transfer, Size = header.Size, and
\* addLog("Started upload from %s: %s")
UploadBegin(h) ==
    /\ Ready(h)
    /\ req[h].pc = "parse"
    /\ IF ~req[h].hasFile
       THEN Fail(h, "form", 400, "release") /\ UNCHANGED <<status, transferLog, logCount>>
       ELSE IF StatOk(disk, req[h].name)
       THEN Fail(h, "exists", 409, "release") /\ UNCHANGED <<status, transferLog, logCount>>
       ELSE /\ status' = Started(status, req[h].peer, req[h].size)
            /\ addLog("started upload", req[h].peer)
            /\ Goto(h, "create")
    /\ UNCHANGED <<locks, work, sseClients, obs, proc, mode, target, disk, activeClient>>
    /\ Publish(h, IF req'[h].pc = "create" THEN 1 ELSE 0)

\* os.Create(savePath)
UploadCreate(h) ==
    /\ Ready(h)
    /\ req[h].pc = "create"
    /\ \/ /\ disk' = [disk EXCEPT ![req[h].name] = [exists |-> TRUE, by |-> req[h].peer, len |-> 0]]
          /\ Goto(h, "chunk")
          /\ UNCHANGED status
       \/ /\ status' = Failed(status, "create")
          /\ Fail(h, "create", 500, "release")
          /\ UNCHANGED disk
    /\ UNCHANGED <<locks, work, sseClients, obs, proc, mode, target, activeClient, transferLog, logCount>>
    /\ Publish(h, IF req'[h].pc = "release" THEN 1 ELSE 0)

\* one turn of the copy loop: file.Read, dst.Write (its error is dropped)
UploadChunk(h) ==
    /\ Ready(h)
    /\ req[h].pc = "chunk" /\ req[h].kind = "upload"
    /\ LET remaining == req[h].size - req[h].transferred
           n == Min(ChunkSize, remaining)
       IN \/ /\ remaining > 0
             /\ \E wrote \in {0, n} :
                   /\ disk' = [disk EXCEPT ![req[h].name].len = @ + wrote]
                   /\ req' = [req EXCEPT ![h].transferred = @ + n, ![h].fault = IF wrote < n THEN "write" ELSE @]
             /\ status' = Progressed(status, req[h].transferred + n)
          \/ /\ remaining = 0
             /\ Goto(h, "complete")
             /\ UNCHANGED <<disk, status>>
          \/ /\ remaining > 0
             /\ Fail(h, "read", req[h].resp, "complete")
             /\ UNCHANGED <<disk, status>>
    /\ UNCHANGED <<locks, work, sseClients, obs, proc, mode, target, activeClient, transferLog, logCount>>
    /\ Publish(h, IF req'[h].transferred > req[h].transferred THEN 1 ELSE 0)

\* ------------------------------------------------------------ handleCancel
\* method check, getClientIP, releaseClient(clientIP)
CancelRelease(h) ==
    /\ Ready(h)
    /\ req[h].pc = "start" /\ req[h].kind = "cancel"
    /\ IF req[h].method # "POST"
       THEN Return(h, 405) /\ UNCHANGED <<activeClient, transferLog, logCount>>
       ELSE Goto(h, "cancelSet") /\ releaseClient(req[h].peer)
    /\ UNCHANGED <<locks, work, sseClients, obs, proc, mode, target, disk, status>>
    /\ Publish(h, 0)

\* fs.status.Status = "cancelled", addLog("Transfer cancelled by %s"), then
\* the 200 response
CancelSet(h) ==
    /\ Ready(h)
    /\ req[h].pc = "cancelSet"
    /\ status' = Cancelled(status)
    /\ addLog("cancelled", req[h].peer)
    /\ Return(h, 200)
    /\ UNCHANGED <<locks, work, sseClients, obs, proc, mode, target, disk, activeClient>>
    /\ Publish(h, 1)

\* ------------------------------------------------------------ specification
Next ==
    \E h \in Handlers :
        \/ Arrive(h)
        \/ DownloadAdmit(h) \/ DownloadBegin(h) \/ DownloadWalk(h)
        \/ DownloadRange(h) \/ DownloadChunk(h)
        \/ UploadAdmit(h) \/ UploadBegin(h)
        \/ UploadCreate(h) \/ UploadChunk(h)
        \/ CancelRelease(h) \/ CancelSet(h)
        \/ Complete(h) \/ Release(h)

Spec == Init /\ [][Next]_vars

\* ------------------------------------------------------------ the log alone
\* fs.addLog called directly, as TestAddLog does
LogCall ==
    /\ logCount < MaxLogCalls
    /\ addLog("Test message", "")
    /\ UNCHANGED <<locks, work, sseClients, obs, bcast, proc, mode, target, disk, status, activeClient, req>>

SpecLog == Init /\ [][LogCall]_vars

\* ------------------------------------------------------------ auto-exit
\* waitForComplete: a tick of the 100 ms ticker on which the phase read under
\* statusMu is completed, cancelled or error; a tick that reads another phase
\* changes nothing
WaitSeesTerminal ==
    /\ proc.autoExit /\ proc.state = "serving"
    /\ status.Status \in {"completed", "cancelled", "error"}
    /\ proc' = [proc EXCEPT !.state = "grace"]
    /\ UNCHANGED <<locks, work, sseClients, obs, bcast, mode, target, disk, status, activeClient, transferLog, logCount, req>>

\* after the 500 ms sleep: fs.server.Shutdown(nil), which returns or panics
\* on its nil context, then os.Exit(0); either way the process is gone and
\* its handlers with it
WaitExits ==
    /\ proc.state = "grace"
    /\ \E code \in {0, 2} : proc' = [proc EXCEPT !.state = "exited", !.code = code]
    /\ req' = [h \in Handlers |-> IF req[h].pc \in {"idle", "done"} THEN req[h] ELSE [req[h] EXCEPT !.pc = "killed"]]
    /\ UNCHANGED <<locks, work, sseClients, obs, bcast, mode, target, disk, status, activeClient, transferLog, logCount>>

InitExit == InitServer /\ proc \in {Serving(a) : a \in BOOLEAN} /\ NoObservers /\ SectionsWhole

NextExit == Next \/ WaitSeesTerminal \/ WaitExits

\* the ticker and the sleep of waitForComplete fire, and the handlers and the
\* listener take their steps
SpecExit ==
    /\ InitExit /\ [][NextExit]_vars
    /\ WF_vars(Next) /\ WF_vars(WaitSeesTerminal) /\ WF_vars(WaitExits)

\* ------------------------------------------------------------ events
\* broadcastStatus, first part: the copy of the status record
BroadcastSnapshot(h) ==
    /\ bcast[h].todo > 0 /\ bcast[h].pc = "idle"
    /\ bcast' = [bcast EXCEPT ![h].pc = "send", ![h].snap = Snapshot(status)]
    /\ UNCHANGED <<locks, work, sseClients, obs, proc, mode, target, disk, status, activeClient, transferLog, logCount, req>>

\* broadcastStatus, second part: the read of the holder, the message, and
\* under sseMu.RLock one non-blocking send per registered channel (the sends
\* to different channels do not depend on each other and are taken together)
BroadcastSend(h) ==
    /\ bcast[h].pc = "send"
    /\ obs' = [o \in DOMAIN obs |->
                 IF o \in sseClients
                 THEN [obs[o] EXCEPT !.clientChan = Send(@, Message(bcast[h].snap, activeClient))]
                 ELSE obs[o]]
    /\ bcast' = [bcast EXCEPT ![h] = [todo |-> @.todo - 1, pc |-> "idle", snap |-> NoSnapshot]]
    /\ UNCHANGED <<locks, work, sseClients, proc, mode, target, disk, status, activeClient, transferLog, logCount, req>>

\* the loop of handleEvents takes a message from clientChan and writes it to
\* the peer; a tick of the 500 ms ticker writes a heartbeat and changes
\* nothing here
EventsReceive(o) ==
    /\ obs[o].pc = "open" /\ ~obs[o].stalled /\ obs[o].clientChan # <<>>
    /\ obs' = [obs EXCEPT ![o].clientChan = Tail(@)]
    /\ UNCHANGED <<locks, work, sseClients, bcast, proc, mode, target, disk, status, activeClient, transferLog, logCount, req>>

\* a session that serves one file of three chunks, started without the
\* auto-exit flag; the observers have connected before the first request,
\* and the peer of the first one has stopped reading
InitEvents ==
    /\ mode = "send"
    /\ target = [isDir |-> FALSE, files |-> <<2 * ChunkSize + ChunkSize \div 2>>]
    /\ disk = [n \in Names |-> Absent]
    /\ status = InitStatus
    /\ activeClient = ""
    /\ transferLog = <<>>
    /\ logCount = 0
    /\ req = [h \in Handlers |-> IdleReq]
    /\ proc = Serving(FALSE)
    /\ sseClients = Observers
    /\ obs = [o \in Observers |-> OpenObs(o = 1)]
    /\ bcast = [h \in Handlers |-> NoBroadcast]
    /\ SectionsWhole

\* the requests of one transfer: a GET /api/download without a Range
\* header, then POST /api/cancel from either peer
PageRequests(h) ==
    IF h = 1
    THEN {NewReq("download", "A", "GET", FALSE, FALSE, "", 0)}
    ELSE {NewReq("cancel", p, "POST", FALSE, FALSE, "", 0) : p \in Peers}

ArrivePage(h) == Arrival(h, PageRequests(h))

\* the handlers of such a session, their broadcastStatus calls and the
\* observers
NextEvents ==
    \/ \E h \in Handlers :
          \/ ArrivePage(h)
          \/ DownloadAdmit(h) \/ DownloadBegin(h) \/ DownloadChunk(h)
          \/ CancelRelease(h) \/ CancelSet(h)
          \/ Complete(h) \/ Release(h)
          \/ BroadcastSnapshot(h) \/ BroadcastSend(h)
    \/ \E o \in Observers : EventsReceive(o)

SpecEvents == InitEvents /\ [][NextEvents]_vars

\* ------------------------------------------------------------ lock operations
\* the goroutines followed one lock operation or one access at a time
\* handlers running at once in the lock specification
MaxWorkers == 2
Workers == 1..MaxWorkers
\* the writer, the reader and the broadcaster of TestConcurrentStatusUpdates
MaxGoroutines == 3
Goroutines == 1..MaxGoroutines

\* TestConcurrentStatusUpdates: fs.status.Size = 10000, Transferred += 10;
\* the loops of the test are cut to MaxRounds turns
TestSize == 10000
Increment == 10
MaxRounds == 2

Lock(m) == [op |-> "Lock", mu |-> m]
Unlock(m) == [op |-> "Unlock", mu |-> m]
RLock(m) == [op |-> "RLock", mu |-> m]
RUnlock(m) == [op |-> "RUnlock", mu |-> m]
\* an access to the field or fields that mutex m guards
Touch(m) == [op |-> "touch", mu |-> m]
\* any other operation on shared state
Do(what) == [op |-> what, mu |-> ""]

RECURSIVE Repeat(_, _)
Repeat(ops, n) == IF n = 0 THEN <<>> ELSE ops \o Repeat(ops, n - 1)

\* broadcastStatus
broadcastStatusOps ==
    <<RLock("statusMu"), Do("copyStatus"), RUnlock("statusMu"),
      Lock("activeMu"), Touch("activeMu"), Unlock("activeMu"),
      RLock("sseMu"), Do("sendLoop"), RUnlock("sseMu")>>

\* addLog
addLogOps == <<Lock("logMu"), Touch("logMu"), Unlock("logMu")>> \o broadcastStatusOps

\* acquireClient
acquireClientOps == <<Lock("activeMu"), Touch("activeMu"), Unlock("activeMu")>>

\* mutant: releaseClient with a deferred Unlock, which runs after addLog
releaseClientOpsDeferred(shouldLog) ==
    <<Lock("activeMu"), Touch("activeMu")>>
    \o (IF shouldLog THEN addLogOps ELSE <<>>) \o <<Unlock("activeMu")>>

\* releaseClient
releaseClientOps(shouldLog) ==
    <<Lock("activeMu"), Touch("activeMu"), Unlock("activeMu")>>
    \o (IF shouldLog THEN addLogOps ELSE <<>>)

\* fs.statusMu.Lock(); assignments to fs.status; fs.statusMu.Unlock()
statusSectionOps == <<Lock("statusMu"), Touch("statusMu"), Unlock("statusMu")>>

\* handleCancel past its method check
handleCancelOps(shouldLog) ==
    releaseClientOps(shouldLog) \o statusSectionOps \o broadcastStatusOps \o addLogOps

\* handleInfo
handleInfoOps ==
    <<RLock("statusMu"), Touch("statusMu"), RUnlock("statusMu"),
      Lock("activeMu"), Touch("activeMu"), Unlock("activeMu")>>

\* handleLog
handleLogOps == <<RLock("logMu"), Touch("logMu"), RUnlock("logMu")>>

\* handleDownload of a file of one chunk: refused by the gate, or admitted
\* and run to its completion section and its deferred release
handleDownloadOps(admitted) ==
    IF ~admitted THEN acquireClientOps
    ELSE acquireClientOps \o addLogOps
         \o statusSectionOps \o broadcastStatusOps \o addLogOps
         \o statusSectionOps \o broadcastStatusOps
         \o statusSectionOps \o broadcastStatusOps \o addLogOps
         \o releaseClientOps(TRUE)

\* handleUpload of a file of one chunk, likewise
handleUploadOps(admitted) ==
    IF ~admitted THEN acquireClientOps
    ELSE acquireClientOps
         \o statusSectionOps \o broadcastStatusOps \o addLogOps
         \o statusSectionOps \o broadcastStatusOps
         \o statusSectionOps \o broadcastStatusOps \o addLogOps
         \o releaseClientOps(TRUE)

\* mutant: the deferred function of handleEvents closes the channel before
\* it deletes it from fs.sseClients
handleEventsOpsClosesFirst ==
    <<Lock("sseMu"), Do("register"), Unlock("sseMu"),
      RLock("statusMu"), Do("copyStatus"), RUnlock("statusMu"),
      Lock("activeMu"), Touch("activeMu"), Unlock("activeMu"),
      Do("loop"),
      Do("close"), Lock("sseMu"), Do("delete"), Unlock("sseMu")>>

\* handleEvents: the registration, the first message, the loop, and the
\* deferred function
handleEventsOps ==
    <<Lock("sseMu"), Do("register"), Unlock("sseMu"),
      RLock("statusMu"), Do("copyStatus"), RUnlock("statusMu"),
      Lock("activeMu"), Touch("activeMu"), Unlock("activeMu"),
      Do("loop"),
      Lock("sseMu"), Do("delete"), Unlock("sseMu"), Do("close")>>

\* mutant: the writer of the test adds without taking the lock
writerOpsUnlocked == Repeat(<<Do("load"), Do("store")>>, MaxRounds)

\* TestConcurrentStatusUpdates: the writer, the reader and the broadcaster
writerOps == Repeat(<<Lock("statusMu"), Do("load"), Do("store"), Unlock("statusMu")>>, MaxRounds)
readerOps == Repeat(<<RLock("statusMu"), Touch("statusMu"), RUnlock("statusMu")>>, MaxRounds)
broadcasterOps == Repeat(broadcastStatusOps, MaxRounds)

\* the handlers a worker can be started on
Programs ==
    {[kind |-> "cancel", ops |-> handleCancelOps(l)] : l \in BOOLEAN}
    \cup {[kind |-> "download", ops |-> handleDownloadOps(a)] : a \in BOOLEAN}
    \cup {[kind |-> "upload", ops |-> handleUploadOps(a)] : a \in BOOLEAN}
    \cup {[kind |-> "info", ops |-> handleInfoOps], [kind |-> "log", ops |-> handleLogOps],
           [kind |-> "events", ops |-> handleEventsOps]}

\* the goroutines of the test
TestPrograms ==
    {[kind |-> "writer", ops |-> writerOps], [kind |-> "reader", ops |-> readerOps],
     [kind |-> "broadcaster", ops |-> broadcasterOps]}

\* a goroutine that has not been started
NoWork ==
    [kind |-> "none", ops |-> <<>>, at |-> 1, loaded |-> 0, snap |-> NoSnapshot,
     client |-> 0, ranged |-> {}, cancelled |-> FALSE, panic |-> ""]

\* the operation a worker is at, and whether it has any left
Busy(w) == work[w].kind # "none" /\ work[w].at <= Len(work[w].ops)
Op(w) == work[w].ops[work[w].at]
At(w, what) == Busy(w) /\ Op(w).op = what

\* the mutexes a worker holds, for writing or for reading
Held(w) == {m \in Mutexes : locks[m].w = w \/ w \in locks[m].r}

\* sync.RWMutex: Lock waits for the writer and the readers to leave, RLock
\* for the writer
Free(m, op) ==
    IF op = "Lock" THEN locks[m].w = 0 /\ locks[m].r = {} ELSE locks[m].w = 0

\* a worker waiting in Lock or RLock
Blocked(w) == Busy(w) /\ Op(w).op \in {"Lock", "RLock"} /\ ~Free(Op(w).mu, Op(w).op)

\* the next operation of worker w
Advance(w) == [work EXCEPT ![w].at = @ + 1]

\* a panic unwinds the goroutine: its deferred unlocks run and it ends
Unwound(w) == [m \in Mutexes |-> [w |-> IF locks[m].w = w THEN 0 ELSE locks[m].w, r |-> locks[m].r \ {w}]]
Panicked(w, why) == [work EXCEPT ![w].at = Len(work[w].ops) + 1, ![w].panic = why]

\* go func() / the server starting a handler for a request
Spawn(w) ==
    /\ work[w].kind = "none"
    /\ IF w = 1 THEN TRUE ELSE work[w - 1].kind # "none"
    /\ \E p \in Programs : work' = [work EXCEPT ![w].kind = p.kind, ![w].ops = p.ops]
    /\ UNCHANGED <<locks, sseClients, obs, status, bcast, proc, mode, target, disk, activeClient, transferLog, logCount, req>>

\* Lock and RLock
LockStep(w) ==
    /\ Busy(w) /\ Op(w).op \in {"Lock", "RLock"}
    /\ Free(Op(w).mu, Op(w).op)
    /\ locks' = [locks EXCEPT ![Op(w).mu] =
                   IF Op(w).op = "Lock" THEN [@ EXCEPT !.w = w] ELSE [@ EXCEPT !.r = @ \cup {w}]]
    /\ work' = Advance(w)
    /\ UNCHANGED <<sseClients, obs, status, bcast, proc, mode, target, disk, activeClient, transferLog, logCount, req>>

\* Unlock and RUnlock; of a mutex the worker does not hold it is a fatal error
UnlockStep(w) ==
    /\ Busy(w) /\ Op(w).op \in {"Unlock", "RUnlock"}
    /\ IF Op(w).mu \in Held(w)
       THEN /\ locks' = [locks EXCEPT ![Op(w).mu] =
                          IF Op(w).op = "Unlock" THEN [@ EXCEPT !.w = 0] ELSE [@ EXCEPT !.r = @ \ {w}]]
            /\ work' = Advance(w)
       ELSE /\ locks' = Unwound(w)
            /\ work' = Panicked(w, "unlock of unlocked mutex")
    /\ UNCHANGED <<sseClients, obs, status, bcast, proc, mode, target, disk, activeClient, transferLog, logCount, req>>

\* an access to guarded fields whose value plays no part here
TouchStep(w) ==
    /\ At(w, "touch")
    /\ work' = Advance(w)
    /\ UNCHANGED <<locks, sseClients, obs, status, bcast, proc, mode, target, disk, activeClient, transferLog, logCount, req>>

\* status := *fs.status
CopyStep(w) ==
    /\ At(w, "copyStatus")
    /\ work' = [Advance(w) EXCEPT ![w].snap = Snapshot(status)]
    /\ UNCHANGED <<locks, sseClients, obs, status, bcast, proc, mode, target, disk, activeClient, transferLog, logCount, req>>

\* fs.status.Transferred += 10 reads the field ...
LoadStep(w) ==
    /\ At(w, "load")
    /\ work' = [Advance(w) EXCEPT ![w].loaded = status.Transferred]
    /\ UNCHANGED <<locks, sseClients, obs, status, bcast, proc, mode, target, disk, activeClient, transferLog, logCount, req>>

\* ... and writes the sum back, then Progress from it
StoreStep(w) ==
    /\ At(w, "store")
    /\ status' = Progressed(status, work[w].loaded + Increment)
    /\ work' = Advance(w)
    /\ UNCHANGED <<locks, sseClients, obs, bcast, proc, mode, target, disk, activeClient, transferLog, logCount, req>>

\* for client := range fs.sseClients: the next channel of the map, or the
\* end of the loop
RangeStep(w) ==
    /\ At(w, "sendLoop") /\ work[w].client = 0
    /\ IF sseClients \ work[w].ranged = {}
       THEN work' = [Advance(w) EXCEPT ![w].ranged = {}]
       ELSE \E c \in sseClients \ work[w].ranged : work' = [work EXCEPT ![w].client = c]
    /\ UNCHANGED <<locks, sseClients, obs, status, bcast, proc, mode, target, disk, activeClient, transferLog, logCount, req>>

\* select { case client <- data: default: }; a send on a closed channel panics
SendStep(w) ==
    /\ At(w, "sendLoop") /\ work[w].client # 0
    /\ LET c == work[w].client IN
       IF obs[c].pc = "closed"
       THEN /\ work' = [Panicked(w, "send on closed channel") EXCEPT ![w].client = 0, ![w].ranged = {}]
            /\ locks' = Unwound(w)
            /\ obs' = obs
       ELSE /\ obs' = [obs EXCEPT ![c].clientChan = Send(@, Message(work[w].snap, activeClient))]
            /\ work' = [work EXCEPT ![w].client = 0, ![w].ranged = @ \cup {c}]
            /\ locks' = locks
    /\ UNCHANGED <<sseClients, status, bcast, proc, mode, target, disk, activeClient, transferLog, logCount, req>>

\* clientChan := make(chan string, 10); fs.sseClients[clientChan] = true
RegisterStep(w) ==
    /\ At(w, "register")
    /\ obs' = (w :> OpenObs(FALSE)) @@ obs
    /\ sseClients' = sseClients \cup {w}
    /\ work' = Advance(w)
    /\ UNCHANGED <<locks, status, bcast, proc, mode, target, disk, activeClient, transferLog, logCount, req>>

\* the peer goes away or the server shuts down: r.Context() is cancelled
Disconnect(w) ==
    /\ Busy(w) /\ work[w].kind = "events" /\ ~work[w].cancelled
    /\ work' = [work EXCEPT ![w].cancelled = TRUE]
    /\ UNCHANGED <<locks, sseClients, obs, status, bcast, proc, mode, target, disk, activeClient, transferLog, logCount, req>>

\* case data, ok := <-clientChan with a message: it is written to the peer
LoopReceive(w) ==
    /\ At(w, "loop") /\ obs[w].clientChan # <<>>
    /\ obs' = [obs EXCEPT ![w].clientChan = Tail(@)]
    /\ UNCHANGED <<locks, work, sseClients, status, bcast, proc, mode, target, disk, activeClient, transferLog, logCount, req>>

\* case <-r.Context().Done(), or !ok from a closed and drained channel: return
LoopExit(w) ==
    /\ At(w, "loop")
    /\ work[w].cancelled \/ (obs[w].pc = "closed" /\ obs[w].clientChan = <<>>)
    /\ work' = Advance(w)
    /\ UNCHANGED <<locks, sseClients, obs, status, bcast, proc, mode, target, disk, activeClient, transferLog, logCount, req>>

\* mutant: the deferred function leaves the channel in the map
DeleteStepForgets(w) ==
    /\ At(w, "delete")
    /\ work' = Advance(w)
    /\ UNCHANGED <<locks, sseClients, obs, status, bcast, proc, mode, target, disk, activeClient, transferLog, logCount, req>>

\* delete(fs.sseClients, clientChan)
DeleteStep(w) ==
    /\ At(w, "delete")
    /\ sseClients' = sseClients \ {w}
    /\ work' = Advance(w)
    /\ UNCHANGED <<locks, obs, status, bcast, proc, mode, target, disk, activeClient, transferLog, logCount, req>>

\* close(clientChan); of a closed channel it panics
CloseStep(w) ==
    /\ At(w, "close")
    /\ IF obs[w].pc = "closed"
       THEN /\ work' = Panicked(w, "close of closed channel")
            /\ locks' = Unwound(w)
            /\ obs' = obs
       ELSE /\ obs' = [obs EXCEPT ![w].pc = "closed"]
            /\ work' = Advance(w)
            /\ locks' = locks
    /\ UNCHANGED <<sseClients, status, bcast, proc, mode, target, disk, activeClient, transferLog, logCount, req>>

\* NewFileServer, and the status record as TestConcurrentStatusUpdates
\* sets it up; no goroutine started yet
InitLocks ==
    /\ mode = "send"
    /\ target = [isDir |-> FALSE, files |-> <<ChunkSize>>]
    /\ disk = [n \in Names |-> Absent]
    /\ status = [InitStatus EXCEPT !.Size = TestSize]
    /\ activeClient = ""
    /\ transferLog = <<>>
    /\ logCount = 0
    /\ req = [h \in Handlers |-> IdleReq]
    /\ proc = Serving(FALSE)
    /\ NoObservers
    /\ locks = [m \in Mutexes |-> Unlocked]
    /\ work = [w \in Workers |-> NoWork]

\* one operation of handler w
WorkerStep(w) ==
    \/ LockStep(w) \/ UnlockStep(w) \/ TouchStep(w) \/ CopyStep(w)
    \/ RangeStep(w) \/ SendStep(w)
    \/ RegisterStep(w) \/ LoopExit(w) \/ DeleteStep(w) \/ CloseStep(w)

NextLocks ==
    \E w \in Workers :
        \/ Spawn(w) \/ Disconnect(w) \/ LoopReceive(w)
        \/ LockStep(w) \/ UnlockStep(w) \/ TouchStep(w) \/ CopyStep(w)
        \/ RangeStep(w) \/ SendStep(w)
        \/ RegisterStep(w) \/ LoopExit(w) \/ DeleteStep(w) \/ CloseStep(w)

SpecLocks == InitLocks /\ [][NextLocks]_vars

\* TestConcurrentStatusUpdates with its goroutines started: each runs the
\* loop of the writer, of the reader or of the broadcaster, and nobody is
\* subscribed
InitTest ==
    /\ mode = "send"
    /\ target = [isDir |-> FALSE, files |-> <<ChunkSize>>]
    /\ disk = [n \in Names |-> Absent]
    /\ status = [InitStatus EXCEPT !.Size = TestSize]
    /\ activeClient = ""
    /\ transferLog = <<>>
    /\ logCount = 0
    /\ req = [h \in Handlers |-> IdleReq]
    /\ proc = Serving(FALSE)
    /\ NoObservers
    /\ locks = [m \in Mutexes |-> Unlocked]
    /\ \E f \in [Goroutines -> TestPrograms] :
          work = [g \in Goroutines |-> [NoWork EXCEPT !.kind = f[g].kind, !.ops = f[g].ops]]

NextTest ==
    \E g \in Goroutines :
        \/ LockStep(g) \/ UnlockStep(g) \/ TouchStep(g) \/ CopyStep(g)
        \/ LoadStep(g) \/ StoreStep(g) \/ RangeStep(g)

SpecTest == InitTest /\ [][NextTest]_vars

\* the Go scheduler lets every goroutine that can run take its next step;
\* the select of the loop takes the Done case once it stays ready
SpecLocksLive == SpecLocks /\ \A w \in Workers : WF_vars(WorkerStep(w))

\* ------------------------------------------------------------ properties
\* h has been admitted by the gate and has not returned
Admitted(h) == req[h].pc \in {"begin", "parse", "create", "chunk", "walk", "serveRange", "complete", "release"}

\* h is moving the bytes of its transfer
InLoop(h) == req[h].pc \in {"chunk", "walk", "serveRange"}

\* this step is h's call of acquireClient: mode and method were accepted
Attempts(h) ==
    /\ req[h].pc = "start" /\ req'[h].pc # "start"
    /\ \/ req[h].kind = "download" /\ mode = "send"
       \/ req[h].kind = "upload" /\ mode = "recv" /\ req[h].method = "POST"

Terminal == {"completed", "cancelled", "error"}

\* the size N of the file h transfers
FileSizeOf(h) == IF req[h].kind = "upload" THEN req[h].size ELSE TargetSize

\* C1: the holder is one peer or none; while peer A holds the slot, a call of
\* acquireClient for a peer B # A fails: B is answered 503 in that very step
\* (it does not wait) and A stays the holder.
GateExcludes ==
    /\ [](activeClient \in Peers \cup {""})
    /\ [][\A h \in Handlers :
            (Attempts(h) /\ activeClient \notin {"", req[h].peer})
            => (req'[h].pc = "done" /\ req'[h].resp = 503 /\ activeClient' = activeClient)]_vars

\* C1 witness: B has been answered 503 while A, admitted, holds the slot
GateExcludesWitness ==
    \E h, g \in Handlers :
        /\ Admitted(h) /\ activeClient = req[h].peer
        /\ req[g].pc = "done" /\ req[g].resp = 503 /\ req[g].peer # req[h].peer

\* C2 (as claimed): no two handlers are inside their transfer loops at once
OneTransferAtATime ==
    \A h, g \in Handlers : h # g => ~(InLoop(h) /\ InLoop(g))

\* two whole-file downloads of a regular file from different peers and no
\* other request, g having been answered 503
TwoPeersCase(h, g) ==
    /\ h # g /\ mode = "send" /\ ~target.isDir
    /\ req[h].kind = "download" /\ req[g].kind = "download"
    /\ ~req[h].range /\ ~req[g].range
    /\ req[h].peer # req[g].peer
    /\ \A k \in Handlers \ {h, g} : req[k].pc = "idle"
    /\ req[g].pc = "done" /\ req[g].resp = 503

SecondDownloadBusy ==
    [][\A h, g \in Handlers :
            (h # g /\ req[h].kind = "download" /\ req[g].kind = "download"
             /\ Attempts(h) /\ Admitted(g))
            => req'[h].resp = 503]_vars

CompletedMeansAll ==
    [][\A h \in Handlers :
            (/\ req[h].pc = "complete" /\ req'[h].pc = "release"
             /\ req[h].fault = "" /\ ~req[h].range
             /\ req[h].kind = "upload" \/ (req[h].kind = "download" /\ ~target.isDir)
             /\ \A g \in Handlers \ {h} :
                    \/ req[g].pc = "idle"
                    \/ req[g].pc = "done" /\ req[g].fault = "" /\ req[g].peer # req[h].peer)
            => (/\ status'.Status = "completed"
                /\ status'.Transferred = FileSizeOf(h)
                /\ status'.Progress = Ratio(100, 1))]_vars

\* C7 (as claimed): while the phase is transferring, a chunk step of a
\* transfer does not decrease Transferred; taken where every other request
\* is not yet received or comes from another peer and has been answered
\* without an I/O error, so that no other handler runs during the transfer
TransferredMonotone ==
    [][\A h \in Handlers :
            (/\ req[h].pc \in {"chunk", "walk"}
             /\ \A g \in Handlers \ {h} :
                    \/ req[g].pc = "idle"
                    \/ req[g].pc = "done" /\ req[g].fault = "" /\ req[g].peer # req[h].peer
             /\ status.Status = "transferring" /\ status'.Status = "transferring")
            => status'.Transferred >= status.Transferred]_vars

\* the requests received so far come from peers different from one another
\* and none has met an I/O error
DistinctPeers ==
    /\ \A h \in Handlers : req[h].fault = ""
    /\ \A h, g \in Handlers :
        (h # g /\ req[h].pc # "idle" /\ req[g].pc # "idle") => req[h].peer # req[g].peer

\* C8 (as claimed): once a transfer has set Size, Transferred <= Size; taken
\* on the sessions whose requests come from different peers, where the gate
\* lets no two transfers overlap, and on which no I/O error has occurred
TransferredWithinSize ==
    (DistinctPeers /\ status.Status # "waiting") => status.Transferred <= status.Size

\* C9: the log never holds more than LogCap entries; it holds the latest
\* entries in the order of their insertion, so that after insertion LogCap + 1
\* the first entry is gone and the second is the oldest one kept.
LogBounded ==
    /\ Len(transferLog) <= LogCap
    /\ Len(transferLog) = Min(logCount, LogCap)
    /\ \A i \in 1..Len(transferLog) : transferLog[i].n = logCount - Len(transferLog) + i

\* C9 witness: insertion LogCap + 1 has evicted entry 1
LogBoundedWitness ==
    /\ logCount = LogCap + 1
    /\ Len(transferLog) = LogCap
    /\ transferLog[1].n = 2

\* C10 (as claimed): the phase starts as waiting, never returns to waiting,
\* leaves waiting only for transferring, and enters completed, cancelled or
\* error only from transferring
PhaseMachine ==
    /\ status.Status = "waiting"
    /\ [][/\ status.Status # "waiting" => status'.Status # "waiting"
          /\ (status.Status = "waiting" /\ status'.Status # "waiting") => status'.Status = "transferring"
          /\ (status'.Status \in Terminal /\ status'.Status # status.Status) => status.Status = "transferring"]_vars

\* C10 (amended): the phase starts as waiting and never returns to waiting;
\* it leaves waiting for transferring (a transfer starts) or for cancelled (a
\* cancel request), never directly for completed or error.
PhaseLeavesWaiting ==
    /\ status.Status = "waiting"
    /\ [][/\ status.Status # "waiting" => status'.Status # "waiting"
          /\ status.Status = "waiting" => status'.Status \in {"waiting", "transferring", "cancelled"}]_vars

\* C10 witness: a cancel request has moved the phase from waiting to cancelled
\* (no transfer has ever started: no peer address, no size)
PhaseLeavesWaitingWitness ==
    /\ status.Status = "cancelled"
    /\ status.ClientIP = "" /\ status.Size = 0 /\ status.Transferred = 0

\* h's transfer has started (the status section that sets transferring is
\* behind it) and h has not yet reached its deferred release
Running(h) == req[h].pc \in {"create", "chunk", "walk", "serveRange", "complete"}

\* this step is a step of handler h
Steps(h) == req'[h] # req[h]

\* C11 (as claimed): once the phase is completed, cancelled or error, the
\* handler running the transfer does not change the phase again; taken for
\* the transfer of a non-empty file that meets no I/O error, where the only
\* other requests are cancel requests
TerminalIsFinal ==
    [][\A h \in Handlers :
            (/\ Running(h) /\ Steps(h)
             /\ FileSizeOf(h) > 0 /\ ~req[h].range /\ req'[h].fault = ""
             /\ \A g \in Handlers \ {h} : req[g].kind \in {"none", "cancel"}
             /\ status.Status \in Terminal)
            => status'.Status = status.Status]_vars

\* C12: a POST /api/cancel, whatever its peer, the holder and the phase, goes
\* on to the status section, which leaves the phase cancelled, and is
\* answered 200
CancelForces ==
    [][\A h \in Handlers :
            (req[h].kind = "cancel" /\ req[h].method = "POST" /\ Steps(h))
            => /\ req[h].pc = "start" => req'[h].pc = "cancelSet"
               /\ req[h].pc = "cancelSet"
                  => (status'.Status = "cancelled" /\ req'[h].pc = "done" /\ req'[h].resp = 200)]_vars

\* C12 witness: a cancel from a peer other than the one of the transfer has
\* been answered 200 and the phase is cancelled
CancelForcesWitness ==
    \E h \in Handlers :
        /\ req[h].kind = "cancel" /\ req[h].pc = "done" /\ req[h].resp = 200
        /\ status.Status = "cancelled"
        /\ status.ClientIP \notin {"", req[h].peer}

\* C13 (as claimed): when a POST /api/cancel has been handled the gate has no
\* holder
CancelEmptiesSlot ==
    [][\A h \in Handlers :
            (req[h].kind = "cancel" /\ req[h].pc = "cancelSet" /\ req'[h].pc = "done")
            => activeClient' = ""]_vars

\* the destination of upload h existed when the handler looked it up, or
\* already before
Conflicts(h) ==
    /\ req[h].kind = "upload" /\ req[h].hasFile /\ req[h].method = "POST" /\ mode = "recv"
    /\ \/ req[h].pc \in {"start", "parse"} /\ disk[req[h].name].exists
       \/ req[h].pc = "release" /\ req[h].fault = "exists"

\* C14: an upload whose destination exists is never answered 200 and, once
\* admitted, is answered 409; none of its steps changes a file of the
\* destination directory or a field of the status record
UploadConflict ==
    [][\A h \in Handlers :
            (Conflicts(h) /\ Steps(h))
            => /\ disk' = disk /\ status' = status
               /\ req'[h].resp \in {0, 409, 503}
               /\ req[h].pc = "parse" => (req'[h].resp = 409 /\ req'[h].pc = "release")
               /\ req[h].pc = "release" => (req'[h].resp = 409 /\ req'[h].pc = "done")]_vars

\* C14 witness: an upload onto a file an earlier upload wrote got 409 while
\* the status record still shows the earlier transfer
UploadConflictWitness ==
    \E h \in Handlers :
        /\ req[h].kind = "upload" /\ req[h].pc = "done" /\ req[h].resp = 409
        /\ disk[req[h].name].by # "" /\ disk[req[h].name].len = status.Transferred
        /\ status.Status = "completed" /\ status.Transferred > 0

\* C15: a download or upload rejected as busy leaves the holder, the status
\* record, the log and the destination directory as they were
BusyMutatesNothing ==
    [][\A h \in Handlers :
            (Attempts(h) /\ ~AcquireOk(activeClient, req[h].peer))
            => /\ req'[h].resp = 503 /\ req'[h].pc = "done"
               /\ activeClient' = activeClient /\ status' = status
               /\ transferLog' = transferLog /\ disk' = disk]_vars

\* C15 witness: an upload of B was answered 503 while A's transfer runs
BusyMutatesNothingWitness ==
    \E h, g \in Handlers :
        /\ req[h].kind = "upload" /\ req[h].pc = "done" /\ req[h].resp = 503
        /\ req[g].pc = "chunk" /\ req[g].peer # req[h].peer
        /\ activeClient = req[g].peer /\ status.Status = "transferring"

\* C16: a download on a recv-mode session and an upload on a send-mode
\* session are answered 400 at once and change nothing else
ModeMismatch ==
    [][\A h \in Handlers :
            (/\ req[h].pc = "start" /\ Steps(h)
             /\ \/ req[h].kind = "download" /\ mode = "recv"
                \/ req[h].kind = "upload" /\ mode = "send")
            => /\ req'[h].resp = 400 /\ req'[h].pc = "done"
               /\ activeClient' = activeClient /\ status' = status
               /\ transferLog' = transferLog /\ disk' = disk]_vars

\* C16 witness: a mismatched request was answered 400 while a peer holds
\* the slot
ModeMismatchWitness ==
    \E h \in Handlers :
        /\ req[h].pc = "done" /\ req[h].resp = 400
        /\ (req[h].kind = "download" /\ mode = "recv") \/ (req[h].kind = "upload" /\ mode = "send")
        /\ activeClient # ""

\* C17 (as claimed): a served byte-range download, the only request of the
\* session, leaves phase, Transferred and Progress as they were
RangeLeavesStatus ==
    \A h \in Handlers :
        (/\ req[h].kind = "download" /\ req[h].range /\ TargetSize > 0
         /\ req[h].pc = "done" /\ req[h].resp = 206
         /\ \A g \in Handlers \ {h} : req[g].pc = "idle")
        => /\ status.Status = InitStatus.Status
           /\ status.Transferred = InitStatus.Transferred
           /\ status.Progress = InitStatus.Progress

\* C19: the holder changes from a peer A only to empty, and only in the
\* releaseClient of a handler of A (its deferred release or its cancel); the
\* releaseClient of a handler of another peer leaves the holder and the log
\* as they were
ReleaseOwnOnly ==
    [][/\ (activeClient # "" /\ activeClient' # activeClient)
          => /\ activeClient' = ""
             /\ \E h \in Handlers :
                   /\ Steps(h) /\ req[h].peer = activeClient
                   /\ \/ req[h].pc = "release"
                      \/ req[h].pc = "start" /\ req[h].kind = "cancel"
       /\ \A h \in Handlers :
             (/\ Steps(h) /\ req[h].peer # activeClient
              /\ \/ req[h].pc = "release"
                 \/ req[h].pc = "start" /\ req[h].kind = "cancel" /\ req[h].method = "POST")
             => (activeClient' = activeClient /\ transferLog' = transferLog)]_vars

\* C19 witness: B's cancel has been handled and A, admitted, still holds
ReleaseOwnOnlyWitness ==
    \E h, g \in Handlers :
        /\ req[g].kind = "cancel" /\ req[g].pc = "done" /\ req[g].resp = 200
        /\ Admitted(h) /\ req[h].peer # req[g].peer
        /\ activeClient = req[h].peer

\* C20: an admitted handler returns only through its deferred release, which
\* empties the slot when its peer holds it; so the holder is always the peer
\* of a handler that is still running
ReleasedAtEnd ==
    /\ [](activeClient # "" => \E h \in Handlers : Admitted(h) /\ req[h].peer = activeClient)
    /\ [][\A h \in Handlers :
            (Admitted(h) /\ req'[h].pc = "done")
            => /\ req[h].pc = "release"
               /\ activeClient = req[h].peer => activeClient' = ""]_vars

\* C20 witness: an admitted handler has returned on an error path (404, 400,
\* 409 or 500) and the slot is empty
ReleasedAtEndWitness ==
    \E h \in Handlers :
        /\ req[h].pc = "done" /\ req[h].resp \in {404, 409, 500} /\ req[h].fault # ""
        /\ activeClient = ""
        /\ \A g \in Handlers \ {h} : req[g].pc = "idle"

\* C18 (as claimed): with the auto-exit flag set the process terminates
\* once the phase has been completed, cancelled or error; with the flag unset
\* it never terminates
ExitsOnceTerminal ==
    /\ [](~proc.autoExit => proc.state # "exited")
    /\ []((proc.autoExit /\ status.Status \in Terminal) => <>(proc.state = "exited"))

\* h has reached the end of its input: every byte of the file, or every
\* file of the directory
AtEnd(h) ==
    IF req[h].pc = "walk" THEN req[h].idx = Len(target.files)
    ELSE req[h].transferred = FileSizeOf(h)

\* C21: a cancel does not interrupt the loop of a running transfer: with the
\* phase cancelled a turn of the loop that meets no I/O error still moves
\* its chunk and writes the new count to the status record, the phase stays
\* cancelled, and the handler leaves the loop only on an I/O error or at the
\* end of its input
CancelDoesNotInterrupt ==
    [][\A h \in Handlers :
            (/\ req[h].pc \in {"chunk", "walk"} /\ Steps(h)
             /\ status.Status = "cancelled")
            => /\ (~AtEnd(h) /\ req'[h].fault = "")
                  => /\ req'[h].pc = req[h].pc
                     /\ req'[h].transferred > req[h].transferred
                     /\ status'.Transferred = req'[h].transferred
                     /\ status'.Status = "cancelled"
               /\ req'[h].pc # req[h].pc
                  => (req'[h].fault # req[h].fault \/ (AtEnd(h) /\ req'[h].pc = "complete"))]_vars

\* C21 witness: the phase is cancelled while a handler is in the middle of
\* its file, with the status record showing the bytes it has moved
CancelDoesNotInterruptWitness ==
    \E h \in Handlers :
        /\ req[h].pc = "chunk" /\ req[h].fault = ""
        /\ status.Status = "cancelled"
        /\ 0 < req[h].transferred /\ req[h].transferred < FileSizeOf(h)
        /\ status.Transferred = req[h].transferred

\* C22: on the download of a single file a failed write to the peer or a
\* failed read of the file sets the phase to error with the message of the
\* failure in Error and sends the handler to its deferred release, which
\* returns without touching the status record (so without completed) and
\* empties the slot its peer holds
DownloadFailure ==
    [][\A h \in Handlers :
            (req[h].kind = "download" /\ Steps(h))
            => /\ (req[h].pc = "chunk" /\ req'[h].fault \in {"read", "write"})
                  => /\ status'.Status = "error"
                     /\ status'.Error = req'[h].fault
                     /\ req'[h].pc = "release"
               /\ (req[h].pc = "release" /\ req[h].fault \in {"read", "write"})
                  => /\ req'[h].pc = "done"
                     /\ status' = status
                     /\ activeClient = req[h].peer => activeClient' = ""]_vars

\* C22 witness: a download has returned after a failed write, the phase is
\* error, Error holds the message and the slot is empty
DownloadFailureWitness ==
    \E h \in Handlers :
        /\ req[h].kind = "download" /\ req[h].pc = "done" /\ req[h].fault = "write"
        /\ status.Status = "error" /\ status.Error = "write"
        /\ activeClient = ""
        /\ \A g \in Handlers \ {h} : req[g].pc = "idle"

\* C23 (as claimed): on the download of a directory a write to the peer that
\* fails in the middle of the archive aborts the walk and sets the phase to
\* error
DirWriteFailure ==
    [][\A h \in Handlers :
            (/\ req[h].pc = "walk" /\ Steps(h)
             /\ req[h].fault = "" /\ req'[h].fault = "copy")
            => (status'.Status = "error" /\ req'[h].pc # "walk")]_vars

\* C24 (as claimed): on an upload a failed read of the input or a failed
\* write of the destination stops the loop and sets the phase to error, and
\* the handler sets completed only when the whole input has been read and
\* written
UploadFailure ==
    [][\A h \in Handlers :
            (req[h].kind = "upload" /\ Steps(h))
            => /\ (req[h].pc = "chunk" /\ req[h].fault = "" /\ req'[h].fault \in {"read", "write"})
                  => (status'.Status = "error" /\ req'[h].pc = "release")
               /\ (req[h].pc = "complete" /\ status'.Status = "completed")
                  => (req[h].transferred = req[h].size /\ disk[req[h].name].len = req[h].size)]_vars

\* C25 (as claimed), the log entry: the step in which a handler sets the
\* phase to error appends an entry to the transfer log
ErrorIsLogged ==
    [][(status'.Status = "error" /\ status' # status) => logCount' = logCount + 1]_vars

\* the requests have been handled one after the other
OneAtATime == \A h, g \in Handlers : (h # g /\ req[g].pc # "idle") => req[h].pc = "done"

\* C26 (as claimed): Error is non-empty only while the phase is error; taken
\* for requests handled one after the other
ErrorOnlyInError ==
    (OneAtATime /\ status.Status # "error") => status.Error = ""

\* C27 (as claimed): Progress is Transferred / Size * 100 when Size > 0 and
\* 0 when Size is 0
ProgressDerived ==
    status.Progress = IF status.Size > 0 THEN ProgressOf(status.Transferred, status.Size) ELSE Ratio(0, 1)

\* no handler is running
Quiet == \A h \in Handlers : req[h].pc \in {"idle", "done"}

\* C28 (as claimed): the ClientIP of the status record equals the holder of
\* the gate; taken in the states where no handler is running and none has
\* met an I/O error
ClientMirrorsGate ==
    (Quiet /\ \A h \in Handlers : req[h].fault = "") => status.ClientIP = activeClient

\* C29: publishing never blocks: the send loop of broadcastStatus can always
\* run, it appends the message to every registered channel that has room,
\* leaves a channel that holds ChanCap undelivered messages as it is, and
\* the caller goes on with what follows the call
PublishNeverBlocks ==
    /\ [](\A o \in DOMAIN obs : Len(obs[o].clientChan) <= ChanCap)
    /\ [](\A h \in Handlers : bcast[h].pc = "send" => ENABLED BroadcastSend(h))
    /\ [][\A h \in Handlers :
            (bcast[h].pc = "send" /\ bcast'[h].pc = "idle")
            => /\ \A o \in sseClients :
                     obs'[o].clientChan =
                        IF Len(obs[o].clientChan) = ChanCap
                        THEN obs[o].clientChan
                        ELSE Append(obs[o].clientChan, Message(bcast[h].snap, activeClient))
               /\ bcast'[h].todo = bcast[h].todo - 1
               /\ req'[h] = req[h]]_vars

\* C29 witness: the channel of the observer that has stopped reading is
\* full, the last message published is not in it, the other observer has
\* that message, and the publishing handlers have finished their calls
PublishNeverBlocksWitness ==
    /\ Len(obs[1].clientChan) = ChanCap
    /\ obs[2].clientChan # <<>>
    /\ \A i \in 1..ChanCap : obs[1].clientChan[i] # obs[2].clientChan[Len(obs[2].clientChan)]
    /\ \A h \in Handlers : Ready(h) /\ req[h].pc = "done"

\* C30 (as claimed): within one transfer the messages enqueued to an
\* observer carry Transferred values that never decrease
NoStaleDecrease ==
    \A o \in DOMAIN obs :
        \A i, j \in 1..Len(obs[o].clientChan) :
            i < j => obs[o].clientChan[i].transferred <= obs[o].clientChan[j].transferred

\* the step h is about to take is a call of releaseClient: the deferred one
\* of a download or upload, or the one of a POST /api/cancel
AtRelease(h) ==
    \/ req[h].pc = "release"
    \/ req[h].kind = "cancel" /\ req[h].pc = "start" /\ req[h].method = "POST"

\* the log entries that note a disconnection
Disconnections == {i \in 1..Len(transferLog) : transferLog[i].msg = "disconnected"}

\* C33: a release that clears the holder appends exactly one log entry, the
\* disconnection of its peer; a release that finds the slot empty or held
\* by another peer changes neither the holder nor the log
ReleaseLogsOnce ==
    [][\A h \in Handlers :
            (AtRelease(h) /\ Steps(h))
            => IF activeClient = req[h].peer
               THEN /\ activeClient' = ""
                    /\ logCount' = logCount + 1
                    /\ Len(transferLog') = Len(transferLog) + 1
                    /\ SubSeq(transferLog', 1, Len(transferLog)) = transferLog
                    /\ transferLog'[Len(transferLog')] =
                          [n |-> logCount + 1, msg |-> "disconnected", peer |-> req[h].peer]
               ELSE /\ activeClient' = activeClient
                    /\ transferLog' = transferLog
                    /\ logCount' = logCount]_vars

\* C33 witness: a download has returned and a cancel has made its release;
\* one of the two releases cleared the slot and the log holds one
\* disconnection, the other found the slot empty and logged nothing
ReleaseLogsOnceWitness ==
    \E h, g \in Handlers :
        /\ req[h].kind = "download" /\ req[h].pc = "done" /\ req[h].resp = 200
        /\ req[g].kind = "cancel" /\ req[g].pc = "cancelSet"
        /\ activeClient = ""
        /\ Cardinality(Disconnections) = 1

\* C35 (as claimed): whenever the phase is transferring the gate has a
\* holder; taken for the runs in which no handler has met an I/O error
TransferringHasHolder ==
    ((\A h \in Handlers : req[h].fault = "") /\ status.Status = "transferring")
    => activeClient # ""

\* h and g are requests of one peer that have both been admitted and have
\* not returned
Overlapping(h, g) ==
    /\ h # g /\ Admitted(h) /\ Admitted(g)
    /\ req[h].peer = req[g].peer

Starts(h) ==
    \/ req[h].pc = "begin" /\ req'[h].pc # "begin" /\ req'[h].fault # "stat"
    \/ req[h].pc = "parse" /\ req'[h].pc = "create"

\* C37: the status section that starts a transfer sets the phase, the peer
\* address and the size and nothing else: Transferred, Progress and Error
\* keep the values the previous attempt left
StartKeepsCounters ==
    [][\A h \in Handlers :
            Starts(h)
            => /\ status'.Status = "transferring"
               /\ status'.ClientIP = req[h].peer
               /\ status'.Size = FileSizeOf(h)
               /\ status'.Transferred = status.Transferred
               /\ status'.Progress = status.Progress
               /\ status'.Error = status.Error]_vars

\* C37 witness: after a request that has returned, a second transfer has
\* started and has not recorded a chunk yet, and the status record still
\* shows the bytes of the first
StartKeepsCountersWitness ==
    \E h, g \in Handlers :
        /\ h # g /\ req[g].pc = "done"
        /\ req[h].pc = "chunk" /\ req[h].transferred = 0
        /\ status.Status = "transferring"
        /\ status.Transferred > 0

\* h was admitted, ran the status section that starts its transfer, and has
\* returned
StartedAndReturned(h) ==
    /\ req[h].kind \in {"download", "upload"} /\ req[h].pc = "done"
    /\ req[h].resp \notin {400, 405, 503}
    /\ req[h].fault \notin {"stat", "form", "exists"}

\* C38 (as claimed), the phase: once the handler of an admitted transfer has
\* returned and no other request has come, the phase has left transferring
TransferLeavesTransferring ==
    \A h \in Handlers :
        (StartedAndReturned(h) /\ \A g \in Handlers \ {h} : req[g].pc = "idle")
        => status.Status # "transferring"

\* the workers that hold mutex m
Holders(m) == {w \in Workers : m \in Held(w)}

\* C31: no worker ever holds two of the four mutexes at once, and a worker
\* that waits for a mutex waits for workers that are running and are not
\* waiting themselves: no set of workers waits in a circle
OneLockAtATime ==
    \A w \in Workers :
        /\ Cardinality(Held(w)) <= 1
        /\ Blocked(w) => \A v \in Holders(Op(w).mu) : v # w /\ Busy(v) /\ ~Blocked(v)

\* C31 witness: a cancel handler waits for a mutex that a download handler
\* holds
OneLockAtATimeWitness ==
    \E w, v \in Workers :
        /\ work[w].kind = "cancel" /\ work[v].kind = "download"
        /\ Blocked(w) /\ Op(w).mu \in Held(v)

\* the additions the goroutines have written back so far
RECURSIVE Stores(_, _)
Stores(ops, n) == IF n = 0 THEN 0 ELSE Stores(ops, n - 1) + (IF ops[n].op = "store" THEN 1 ELSE 0)
StoresDone(g) == Stores(work[g].ops, work[g].at - 1)
RECURSIVE Sum(_, _)
Sum(f, n) == IF n = 0 THEN 0 ELSE Sum(f, n - 1) + f[n]
AllStores == Sum([g \in Goroutines |-> StoresDone(g)], MaxGoroutines)

\* C34: whatever the readers and the broadcasters do meanwhile, Transferred
\* is the sum of the additions written so far, and Progress follows from it;
\* so when the goroutines have ended it is the sum of all of them
NoLostUpdate ==
    /\ status.Transferred = Increment * AllStores
    /\ status.Progress = ProgressOf(status.Transferred, TestSize)

\* C34 witness: one writer has ended its loop beside a reader and a
\* broadcaster that have ended theirs
NoLostUpdateWitness ==
    /\ \A g \in Goroutines : ~Busy(g)
    /\ {work[g].kind : g \in Goroutines} = {"writer", "reader", "broadcaster"}
    /\ status.Transferred = Increment * MaxRounds

\* C39: no send to a closed channel: every channel in fs.sseClients is open,
\* the channel a send loop has taken from the map is open, and no worker
\* has panicked in a send
NoSendOnClosed ==
    /\ \A c \in sseClients : obs[c].pc = "open"
    /\ \A w \in Workers :
          /\ work[w].panic # "send on closed channel"
          /\ work[w].client # 0 => obs[work[w].client].pc = "open"

\* C39 witness: a send loop has taken the channel of an observer whose
\* request is cancelled and whose deferred function waits for sseMu
NoSendOnClosedWitness ==
    \E w, c \in Workers :
        /\ At(w, "sendLoop") /\ work[w].client = c
        /\ work[c].kind = "events" /\ work[c].cancelled
        /\ Blocked(c) /\ Op(c).mu = "sseMu"
        /\ work[c].ops[work[c].at + 1].op = "delete"

\* worker w has carried out its operation called what
Did(w, what) == \E i \in 1..(work[w].at - 1) : work[w].ops[i].op = what

\* an observer's handler has returned: its channel is out of the map and closed
Ended(w) == ~Busy(w) /\ w \notin sseClients /\ w \in DOMAIN obs /\ obs[w].pc = "closed"

\* the channel of w is in fs.sseClients exactly from the registration at the
\* start of its handleEvents to the delete of the deferred function; it is
\* closed by that function and by nothing else, and closing never panics
Lifecycle ==
    \A w \in Workers :
        /\ w \in sseClients <=> work[w].kind = "events" /\ Did(w, "register") /\ ~Did(w, "delete")
        /\ (w \in DOMAIN obs /\ obs[w].pc = "closed") <=> Did(w, "close")
        /\ work[w].panic # "close of closed channel"
        /\ work[w].kind = "events" /\ ~Busy(w) => Ended(w)

\* C32: the lifecycle above, and an observer whose request is cancelled has
\* its handler return, with the channel removed and closed
SubscriberLifecycle ==
    /\ []Lifecycle
    /\ \A w \in Workers : (work[w].kind = "events" /\ work[w].cancelled) ~> Ended(w)

\* C32 witness: of two observers the one whose request was cancelled has
\* ended, its channel removed and closed, and the other is still subscribed
SubscriberLifecycleWitness ==
    \E w, v \in Workers :
        /\ work[w].kind = "events" /\ work[w].cancelled /\ Ended(w)
        /\ work[v].kind = "events" /\ v \in sseClients /\ obs[v].pc = "open"

====
